---- MODULE Spec2Model ----
(***************************************************************************)
(* Model of the EIP-6963 provider store (src/src/WalletProviders.tsx,      *)
(* lines 54-84) and of the WalletProviders component that consumes it      *)
(* (lines 159-223).                                                        *)
(*                                                                         *)
(* The browser is single threaded: a handler runs to completion, except    *)
(* that window.dispatchEvent runs the listeners of the dispatched event    *)
(* synchronously, inside the dispatching call.  The wallets that listen to *)
(* eip6963:requestProvider and answer with eip6963:announceProvider are    *)
(* the environment of the store.                                           *)
(***************************************************************************)
EXTENDS Integers, Sequences, FiniteSets, Bags, TLC

\* ------------------------------------------------------------------ bounds
MaxUuid == 2          \* distinct session identifiers that are announced
MaxResponders == 1    \* wallets that answer every request broadcast
MaxSubs == 2          \* calls of store.subscribe
MaxAnnounce == 3      \* announcement events dispatched in all

Uuids == 1..MaxUuid
Names == {"n1", "n2"}
Handles == {"h1", "h2"}
Subs == 1..MaxSubs

\* EIP6963ProviderInfo restricted to the fields the code reads or that tell
\* two announcements of one uuid apart (walletId and icon play no role).
EIP6963ProviderInfo == [uuid : Uuids, name : Names]

\* The <<name, provider handle>> pairs that occur in announcements: a uuid
\* can be re-announced with another name and handle.
Variants == {<<"n1", "h1">>, <<"n2", "h2">>}

\* EIP6963ProviderDetail: display info and the callable provider handle.
EIP6963ProviderDetail ==
    {d \in [info : EIP6963ProviderInfo, provider : Handles] :
        <<d.info.name, d.provider>> \in Variants}

\* The wallets that answer each eip6963:requestProvider broadcast; wallet w
\* always announces the same detail.
Responders == {u \in Uuids : u <= MaxResponders}
ResponderDetail(w) == [info |-> [uuid |-> w, name |-> "n1"], provider |-> "h1"]

VARIABLES
    providers,    \* let providers: EIP6963ProviderDetail[]
    listeners,    \* window's listeners of eip6963:announceProvider, in order
    status,       \* per subscription: "new", "active" (subscribe called) or
                  \* "closed" (its unsubscribe function called)
    call,         \* the subscribe call whose dispatchEvent is running, or 0
    syncQueue,    \* wallets still to answer inside the running dispatchEvent
    owed,         \* <<wallet, subscription>>: answers that will come later
    requests,     \* eip6963:requestProvider broadcasts dispatched
    subscribeCalls, \* calls of store.subscribe made
    notified,     \* per subscription: invocations of its callback
    installed,    \* the responding wallets installed in this browser
    announced,    \* announcement events dispatched so far
    delivered,    \* history: announcements delivered while a listener existed
    lost,         \* history: installed wallets that announced themselves
                  \* while no listener existed
    answered,     \* history: wallets that answered a request in time
    late,         \* history: uuids announced after some unsubscribe call
    arrays,       \* the array objects created so far, by identity
    ref,          \* the identity of the array that providers refers to
    appends,      \* per subscription: entries its listener appended
    seen,         \* per subscription: store.value() as its callback last
                  \* found it
    snap          \* what a reader's latest store.value() call returned

storeVars == <<providers, listeners, status, call, syncQueue, owed, requests,
               subscribeCalls, notified, installed, announced, delivered,
               lost, answered, late, arrays, ref, appends, seen, snap>>

\* ------------------------------------------------------------- the store
Range(s) == {s[i] : i \in 1..Len(s)}

\* providers.some((p) => p.info.uuid === uuid)
some(ps, uuid) == \E i \in 1..Len(ps) : ps[i].info.uuid = uuid

\* store.value
value == providers

\* Variant: the duplicate test compares whole details, not uuids.
onAnnouncementByDetail(ps, event) ==
    IF \E i \in 1..Len(ps) : ps[i] = event.detail
    THEN [providers |-> ps, fresh |-> FALSE, callback |-> FALSE, seen |-> ps]
    ELSE [providers |-> Append(ps, event.detail), fresh |-> TRUE,
          callback |-> TRUE, seen |-> Append(ps, event.detail)]

\* Variant: a new entry is put in front of the list.
onAnnouncementPrepend(ps, event) ==
    IF some(ps, event.detail.info.uuid)
    THEN [providers |-> ps, fresh |-> FALSE, callback |-> FALSE, seen |-> ps]
    ELSE [providers |-> <<event.detail>> \o ps, fresh |-> TRUE,
          callback |-> TRUE, seen |-> <<event.detail>> \o ps]

\* Variant: a re-announcement replaces the stored entry (last one wins).
onAnnouncementReplace(ps, event) ==
    IF some(ps, event.detail.info.uuid)
    THEN [providers |-> [i \in 1..Len(ps) |->
                            IF ps[i].info.uuid = event.detail.info.uuid
                            THEN event.detail ELSE ps[i]],
          fresh |-> TRUE, callback |-> FALSE, seen |-> ps]
    ELSE [providers |-> Append(ps, event.detail), fresh |-> TRUE,
          callback |-> TRUE, seen |-> Append(ps, event.detail)]

\* Variant: a new entry replaces the whole list.
onAnnouncementReset(ps, event) ==
    IF some(ps, event.detail.info.uuid)
    THEN [providers |-> ps, fresh |-> FALSE, callback |-> FALSE, seen |-> ps]
    ELSE [providers |-> <<event.detail>>, fresh |-> TRUE,
          callback |-> TRUE, seen |-> <<event.detail>>]

\* Variant: the callback is called before the list is replaced.
onAnnouncementCallbackFirst(ps, event) ==
    IF some(ps, event.detail.info.uuid)
    THEN [providers |-> ps, fresh |-> FALSE, callback |-> FALSE, seen |-> ps]
    ELSE [providers |-> Append(ps, event.detail), fresh |-> TRUE,
          callback |-> TRUE, seen |-> ps]

\* Variant: the entry is pushed onto the existing array.
onAnnouncementPush(ps, event) ==
    IF some(ps, event.detail.info.uuid)
    THEN [providers |-> ps, fresh |-> FALSE, callback |-> FALSE, seen |-> ps]
    ELSE [providers |-> Append(ps, event.detail), fresh |-> FALSE,
          callback |-> TRUE, seen |-> Append(ps, event.detail)]

\* onAnnouncement of one subscription.  providers: the contents of the array
\* the variable refers to afterwards; fresh: that array is a new object
\* (line 65 builds one with a spread); callback: the subscription's callback
\* was called; seen: what store.value() held when it was called.
onAnnouncement(ps, event) ==
    IF some(ps, event.detail.info.uuid)
    THEN [providers |-> ps, fresh |-> FALSE, callback |-> FALSE, seen |-> ps]
    ELSE [providers |-> Append(ps, event.detail), fresh |-> TRUE,
          callback |-> TRUE, seen |-> Append(ps, event.detail)]

\* window.dispatchEvent of an eip6963:announceProvider event: the registered
\* listeners run one after the other, in registration order.  An assignment
\* of a new array leaves the old array object as it was; a change in place
\* changes the object that earlier readers hold.
RECURSIVE dispatchAnnounce(_, _, _)
dispatchAnnounce(ls, st, event) ==
    IF ls = <<>> THEN st
    ELSE LET r == onAnnouncement(st.providers, event)
             s == Head(ls)
             grown == Len(r.providers) - Len(st.providers)
         IN dispatchAnnounce(Tail(ls),
                [providers |-> r.providers,
                 arrays    |-> IF r.fresh THEN Append(st.arrays, r.providers)
                               ELSE [st.arrays EXCEPT ![st.ref] = r.providers],
                 ref       |-> IF r.fresh THEN Len(st.arrays) + 1 ELSE st.ref,
                 notified  |-> IF r.callback
                               THEN [st.notified EXCEPT ![s] = @ + 1]
                               ELSE st.notified,
                 appends   |-> IF grown > 0
                               THEN [st.appends EXCEPT ![s] = @ + grown]
                               ELSE st.appends,
                 seen      |-> IF r.callback
                               THEN [st.seen EXCEPT ![s] = r.seen]
                               ELSE st.seen],
                event)

\* window.addEventListener("eip6963:announceProvider", onAnnouncement)
addEventListener(ls, s) == IF s \in Range(ls) THEN ls ELSE Append(ls, s)

\* Variant: the listener passed to removeEventListener is not the
\* registered one, so nothing is removed.
removeEventListenerOther(ls, s) == ls

\* window.removeEventListener("eip6963:announceProvider", onAnnouncement)
removeEventListener(ls, s) == SelectSeq(ls, LAMBDA x : x # s)

\* Variant: the request is broadcast twice.
dispatchRequestTwice(n) == n + 2

\* window.dispatchEvent(new Event("eip6963:requestProvider"))
dispatchRequest(n) == n + 1

\* Variant: the request is broadcast before the listener is registered.
SubscribeStepsDispatchFirst == <<"dispatchEvent", "addEventListener">>

\* The statements of store.subscribe, in program order.
SubscribeSteps == <<"addEventListener", "dispatchEvent">>

\* Index of the dispatchEvent statement.
DispatchAt(steps) == CHOOSE i \in 1..Len(steps) : steps[i] = "dispatchEvent"

\* The listeners after running the statements steps[from..to] for s.
RECURSIVE RunListen(_, _, _, _, _)
RunListen(steps, from, to, ls, s) ==
    IF from > to THEN ls
    ELSE RunListen(steps, from + 1, to,
                   IF steps[from] = "addEventListener"
                   THEN addEventListener(ls, s) ELSE ls, s)

\* A set of wallets as a sequence, in ascending order.
RECURSIVE SeqOf(_)
SeqOf(S) == IF S = {} THEN <<>>
            ELSE LET m == CHOOSE x \in S : \A y \in S : x <= y
                 IN <<m>> \o SeqOf(S \ {m})

\* Announcement events that installed wallets still owe to earlier requests.
Reserved == Len(syncQueue) + Cardinality(owed)

\* Delivery of one announcement event to the registered listeners.
Deliver(d) ==
    LET st == dispatchAnnounce(listeners,
                  [providers |-> providers, arrays |-> arrays, ref |-> ref,
                   notified |-> notified, appends |-> appends,
                   seen |-> seen],
                  [detail |-> d])
    IN /\ providers' = st.providers
       /\ arrays' = st.arrays
       /\ ref' = st.ref
       /\ appends' = st.appends
       /\ seen' = st.seen
       /\ announced' = announced + 1
       /\ notified' = st.notified
       /\ delivered' = IF listeners # <<>> THEN Append(delivered, d)
                       ELSE delivered
       /\ lost' = IF listeners = <<>>
                  THEN lost \cup ({d.info.uuid} \cap installed) ELSE lost
       /\ late' = IF \E s \in Subs : status[s] = "closed"
                  THEN late \cup {d.info.uuid} ELSE late

\* store.subscribe(callback), up to and including its dispatchEvent; the
\* wallets in sync answer inside the dispatch, the others later.
Subscribe(s, sync) ==
    /\ call = 0
    /\ sync \subseteq installed
    /\ announced + Reserved + Cardinality(installed) <= MaxAnnounce
    /\ s = subscribeCalls + 1
    /\ s \in Subs
    /\ LET k == DispatchAt(SubscribeSteps)
       IN listeners' = RunListen(SubscribeSteps, 1, k, listeners, s)
    /\ requests' = dispatchRequest(requests)
    /\ subscribeCalls' = subscribeCalls + 1
    /\ status' = [status EXCEPT ![s] = "active"]
    /\ call' = s
    /\ syncQueue' = SeqOf(sync)
    /\ owed' = owed \cup {<<w, s>> : w \in installed \ sync}
    /\ UNCHANGED <<providers, notified, installed, announced, delivered,
                   lost, answered, late>>
    /\ UNCHANGED <<arrays, ref, appends, seen>>
    /\ UNCHANGED snap

\* A wallet's listener of eip6963:requestProvider announces the wallet
\* inside the running dispatchEvent.
AnswerSync ==
    /\ call # 0
    /\ syncQueue # <<>>
    /\ Deliver(ResponderDetail(Head(syncQueue)))
    /\ syncQueue' = Tail(syncQueue)
    /\ answered' = answered \cup {Head(syncQueue)}
    /\ UNCHANGED <<listeners, status, call, owed, requests, subscribeCalls,
                   installed>>
    /\ UNCHANGED snap

\* dispatchEvent returns; store.subscribe runs its remaining statements and
\* returns the unsubscribe function.
SubscribeReturn ==
    /\ call # 0
    /\ syncQueue = <<>>
    /\ LET k == DispatchAt(SubscribeSteps)
       IN listeners' = RunListen(SubscribeSteps, k + 1, Len(SubscribeSteps),
                                 listeners, call)
    /\ call' = 0
    /\ UNCHANGED <<providers, status, syncQueue, owed, requests,
                   subscribeCalls, notified, installed, announced, delivered,
                   lost, answered, late>>
    /\ UNCHANGED <<arrays, ref, appends, seen>>
    /\ UNCHANGED snap

\* A wallet answers the request of subscription s in a later task.
AnswerLater(w, s) ==
    /\ call = 0
    /\ <<w, s>> \in owed
    /\ Deliver(ResponderDetail(w))
    /\ owed' = owed \ {<<w, s>>}
    /\ answered' = IF status[s] = "active" THEN answered \cup {w}
                   ELSE answered
    /\ UNCHANGED <<listeners, status, call, syncQueue, requests,
                   subscribeCalls, installed>>
    /\ UNCHANGED snap

\* Some wallet dispatches eip6963:announceProvider on its own.
Announce(d) ==
    /\ call = 0
    /\ announced + Reserved < MaxAnnounce
    /\ Deliver(d)
    /\ UNCHANGED <<listeners, status, call, syncQueue, owed, requests,
                   subscribeCalls, installed, answered>>
    /\ UNCHANGED snap

\* The function returned by store.subscribe for subscription s.
Unsubscribe(s) ==
    /\ call = 0
    /\ status[s] \in {"active", "closed"}
    /\ listeners' = removeEventListener(listeners, s)
    /\ status' = [status EXCEPT ![s] = "closed"]
    /\ UNCHANGED <<providers, call, syncQueue, owed, requests,
                   subscribeCalls, notified, installed, announced, delivered,
                   lost, answered, late>>
    /\ UNCHANGED <<arrays, ref, appends, seen>>
    /\ UNCHANGED snap

\* No reader has called store.value() yet.
NoSnapshot == [none |-> TRUE]

\* A reader (useSyncExternalStore at a render, or any other code) calls
\* store.value(): it gets the array that providers refers to at that moment.
\* The contents and the appends made so far are kept as history.
Value ==
    /\ snap' = [ref |-> ref, contents |-> value, appends |-> appends]
    /\ UNCHANGED <<providers, listeners, status, call, syncQueue, owed,
                   requests, subscribeCalls, notified, installed, announced,
                   delivered, lost, answered, late, arrays, ref, appends,
                   seen>>

StoreInit ==
    /\ providers = <<>>
    /\ listeners = <<>>
    /\ status = [s \in Subs |-> "new"]
    /\ call = 0
    /\ syncQueue = <<>>
    /\ owed = {}
    /\ requests = 0
    /\ subscribeCalls = 0
    /\ notified = [s \in Subs |-> 0]
    /\ installed \in SUBSET Responders
    /\ announced = 0
    /\ delivered = <<>>
    /\ lost = {}
    /\ answered = {}
    /\ late = {}
    /\ arrays = << <<>> >>
    /\ ref = 1
    /\ appends = [s \in Subs |-> 0]
    /\ seen = [s \in Subs |-> <<>>]
    /\ snap = NoSnapshot

StoreNext ==
    \/ \E s \in Subs, sync \in SUBSET Responders : Subscribe(s, sync)
    \/ AnswerSync
    \/ SubscribeReturn
    \/ \E w \in Responders, s \in Subs : AnswerLater(w, s)
    \/ \E d \in EIP6963ProviderDetail : Announce(d)
    \/ \E s \in Subs : Unsubscribe(s)


\* ----------------------------------------- App and the WalletProviders UI
MaxCalls == 4         \* handler calls in all: clicks and timer firings

\* The value of selectedWallet before a wallet is selected.
Undefined == [undefined |-> TRUE]

\* Results with which a wallet resolves eth_requestAccounts.
AccountLists == {<<>>, <<"">>, <<"0xa">>, <<"0xb">>}

VARIABLES
    mounted,        \* the WalletProviders component is mounted
    selectedWallet, \* useState: EIP6963ProviderDetail | undefined
    userAccount,    \* useState: string
    timers,         \* bag of the active setInterval timers, each with the
                    \* provider and account its callback captured
    interval,       \* the timer the effect's cleanup clears, or NoInterval
    connects,       \* bag of handleConnect calls awaiting eth_requestAccounts
    calls,          \* handler calls made: handleConnect, the timer
                    \* callback and signMessages
    polls,          \* bag of polling callbacks awaiting a request
    signs,          \* bag of signMessages calls awaiting a request
    logged,         \* rejections passed to console.error
    unhandled,      \* rejections that no handler caught
    detached,       \* history: wallet_getCapabilities requests issued by a
                    \* callback whose timer had been cleared
    settled,        \* history: the handleConnect call that settled last
    signIssued,     \* history: eth_signTypedData_v4 requests issued
    signEnded,      \* history: signMessages calls that ran to their end
    lastGood,       \* history: the handleConnect call that last set the
                    \* selection
    initializeProvider, \* App: where the async initializeProvider stands
    cleanup,        \* App: the effect's `let cleanup`
    ledger          \* App: what became of the Ledger provider

uiVars == <<mounted, selectedWallet, userAccount, timers, interval, connects,
            calls, polls, signs, logged, unhandled, detached, settled, signIssued,
            signEnded, lastGood, initializeProvider, cleanup, ledger>>

vars == <<storeVars, uiVars>>

\* const isConnected = !!selectedWallet && !!userAccount
isConnected(sw, ua) == sw # Undefined /\ ua # ""

\* selectedWallet?.provider
providerOf(sw) == IF sw = Undefined THEN "undefined" ELSE sw.provider

\* Variant: userAccount is missing from the dependency list.
effectDepsNoAccount(sw, ua) == <<isConnected(sw, ua), providerOf(sw), "">>

\* The dependency list of the polling effect.
effectDeps(sw, ua) == <<isConnected(sw, ua), providerOf(sw), ua>>

\* The effect has not created a timer: its cleanup is undefined.
NoInterval == [none |-> TRUE]

\* Variant: the effect returns no cleanup.
clearIntervalNone(ts, t) == ts

\* The effect's cleanup: clearInterval(interval).
clearInterval(ts, t) == IF t = NoInterval THEN ts ELSE ts (-) SetToBag({t})

\* setInterval(callback, 5000), the callback capturing sw and ua.
setInterval(sw, ua) == [provider |-> sw.provider, account |-> ua]

\* React commits a render with state <<sw, ua>>: when a dependency changed
\* the cleanup of the previous effect runs, then the effect runs again.
\* The two setters of handleConnect are batched into one render, and the
\* render, its commit and its effects are one step.
Commit(sw, ua) ==
    IF effectDeps(sw, ua) = effectDeps(selectedWallet, userAccount)
    THEN UNCHANGED <<timers, interval>>
    ELSE LET cleared == clearInterval(timers, interval)
         IN IF ~isConnected(sw, ua)
            THEN /\ timers' = cleared
                 /\ interval' = NoInterval
            ELSE /\ timers' = cleared (+) SetToBag({setInterval(sw, ua)})
                 /\ interval' = setInterval(sw, ua)

\* A click on a wallet button: handleConnect up to its await.
HandleConnect(providerWithInfo) ==
    /\ mounted
    /\ calls < MaxCalls
    /\ providerWithInfo \in Range(value)
    /\ calls' = calls + 1
    /\ connects' = connects (+) SetToBag({providerWithInfo})
    /\ UNCHANGED <<mounted, selectedWallet, userAccount, timers, interval,
                   polls, signs, logged, unhandled>>
    /\ UNCHANGED detached
    /\ UNCHANGED settled
    /\ UNCHANGED <<signIssued, signEnded>>
    /\ UNCHANGED lastGood
    /\ UNCHANGED <<initializeProvider, cleanup, ledger>>

\* No handleConnect call has settled yet.
NoConnect == [none |-> TRUE]

\* Variant: only the list of accounts is tested, not its first element.
hasAccountAnyFirst(accounts) == accounts # <<>>

\* if (accounts && accounts[0])
hasAccount(accounts) == accounts # <<>> /\ accounts[1] # ""

\* Variant: the wallet is only set when none is selected yet.
setSelectionKeepWallet(sw, ua, c, accounts) ==
    [selectedWallet |-> IF sw = Undefined THEN c ELSE sw,
     userAccount |-> accounts[1]]

\* setSelectedWallet(providerWithInfo); setUserAccount(accounts[0]): the
\* state of the next render.
setSelection(sw, ua, c, accounts) ==
    [selectedWallet |-> c, userAccount |-> accounts[1]]

\* eth_requestAccounts resolves: the rest of handleConnect.  React drops
\* the updates of a component that is no longer mounted.
ConnectResolve(c, accounts) ==
    /\ BagIn(c, connects)
    /\ connects' = connects (-) SetToBag({c})
    /\ settled' = [providerWithInfo |-> c, accounts |-> accounts,
                   rejected |-> FALSE]
    /\ IF hasAccount(accounts) /\ mounted
       THEN LET next == setSelection(selectedWallet, userAccount, c, accounts)
            IN /\ selectedWallet' = next.selectedWallet
               /\ userAccount' = next.userAccount
               /\ Commit(next.selectedWallet, next.userAccount)
               /\ lastGood' = [providerWithInfo |-> c, accounts |-> accounts,
                               overlapped |-> BagCardinality(connects) > 1]
       ELSE UNCHANGED <<selectedWallet, userAccount, timers, interval,
                        lastGood>>
    /\ UNCHANGED <<mounted, calls, polls, signs, logged, unhandled>>
    /\ UNCHANGED detached
    /\ UNCHANGED <<signIssued, signEnded>>
    /\ UNCHANGED <<initializeProvider, cleanup, ledger>>

\* eth_requestAccounts rejects: .catch(console.error) gives undefined.
ConnectReject(c) ==
    /\ BagIn(c, connects)
    /\ connects' = connects (-) SetToBag({c})
    /\ settled' = [providerWithInfo |-> c, accounts |-> <<>>,
                   rejected |-> TRUE]
    /\ logged' = logged + 1
    /\ UNCHANGED <<mounted, selectedWallet, userAccount, timers, interval,
                   calls, polls, signs, unhandled>>
    /\ UNCHANGED detached
    /\ UNCHANGED <<signIssued, signEnded>>
    /\ UNCHANGED lastGood
    /\ UNCHANGED <<initializeProvider, cleanup, ledger>>

\* A polling timer fires: the callback issues eth_chainId on the provider
\* its closure captured.
Tick(t) ==
    /\ BagIn(t, timers)
    /\ calls < MaxCalls
    /\ calls' = calls + 1
    /\ polls' = polls (+) SetToBag({[provider |-> t.provider,
                                      account |-> t.account,
                                      awaiting |-> "eth_chainId"]})
    /\ UNCHANGED <<mounted, selectedWallet, userAccount, timers, interval,
                   connects, signs, logged, unhandled>>
    /\ UNCHANGED detached
    /\ UNCHANGED settled
    /\ UNCHANGED <<signIssued, signEnded>>
    /\ UNCHANGED lastGood
    /\ UNCHANGED <<initializeProvider, cleanup, ledger>>

\* Variant: the callback ends after eth_chainId.
pollContinueStop(ps, p) == ps (-) SetToBag({p})

\* The polling callback after the request it awaits resolved: after
\* eth_chainId it issues wallet_getCapabilities, after that it logs and ends.
\* Nothing in it looks at the timer or at other callbacks.
pollContinue(ps, p) ==
    IF p.awaiting = "eth_chainId"
    THEN (ps (-) SetToBag({p})) (+)
         SetToBag({[p EXCEPT !.awaiting = "wallet_getCapabilities"]})
    ELSE ps (-) SetToBag({p})

\* A request of a polling callback resolves: after eth_chainId the callback
\* issues wallet_getCapabilities, after that it logs and ends.
PollResolve(p) ==
    /\ BagIn(p, polls)
    /\ polls' = pollContinue(polls, p)
    /\ detached' = IF /\ p.awaiting = "eth_chainId"
                      /\ ~BagIn([provider |-> p.provider,
                                 account |-> p.account], timers)
                   THEN detached + 1 ELSE detached
    /\ UNCHANGED <<mounted, selectedWallet, userAccount, timers, interval,
                   connects, calls, signs, logged, unhandled>>
    /\ UNCHANGED settled
    /\ UNCHANGED <<signIssued, signEnded>>
    /\ UNCHANGED lastGood
    /\ UNCHANGED <<initializeProvider, cleanup, ledger>>

\* A request of a polling callback rejects: the await throws, nothing in the
\* callback catches it and setInterval drops the rejected promise.
PollReject(p) ==
    /\ BagIn(p, polls)
    /\ polls' = polls (-) SetToBag({p})
    /\ unhandled' = unhandled + 1
    /\ UNCHANGED <<mounted, selectedWallet, userAccount, timers, interval,
                   connects, calls, signs, logged>>
    /\ UNCHANGED detached
    /\ UNCHANGED settled
    /\ UNCHANGED <<signIssued, signEnded>>
    /\ UNCHANGED lastGood
    /\ UNCHANGED <<initializeProvider, cleanup, ledger>>

\* signMessages up to its first await.
SignMessages ==
    /\ mounted
    /\ calls < MaxCalls
    /\ calls' = calls + 1
    /\ IF ~isConnected(selectedWallet, userAccount)
       THEN UNCHANGED <<signs, signIssued>>
       ELSE /\ signs' = signs (+)
                           SetToBag({[provider |-> selectedWallet.provider,
                                      account |-> userAccount,
                                      awaiting |-> 1,
                                      signature1 |-> "pending"]})
            /\ signIssued' = signIssued + 1
    /\ UNCHANGED signEnded
    /\ UNCHANGED <<mounted, selectedWallet, userAccount, timers, interval,
                   connects, polls, logged, unhandled>>
    /\ UNCHANGED detached
    /\ UNCHANGED settled
    /\ UNCHANGED lastGood
    /\ UNCHANGED <<initializeProvider, cleanup, ledger>>

\* Variant: the first request has no .catch, so its rejection ends
\* signMessages.
signContinueThrow(gs, g, rejected) ==
    IF g.awaiting = 1 /\ ~rejected
    THEN [signs |-> (gs (-) SetToBag({g})) (+)
                    SetToBag({[g EXCEPT !.awaiting = 2,
                                        !.signature1 = "signed"]}),
          issued |-> 1, ended |-> 0]
    ELSE [signs |-> gs (-) SetToBag({g}), issued |-> 0, ended |-> 1]

\* signMessages after the request it awaits settled: .catch(console.error)
\* turns a rejection into undefined, so after the first request the second
\* is issued either way, and after the second signMessages logs and ends.
signContinue(gs, g, rejected) ==
    IF g.awaiting = 1
    THEN [signs |-> (gs (-) SetToBag({g})) (+)
                    SetToBag({[g EXCEPT !.awaiting = 2,
                                        !.signature1 =
                                            IF rejected THEN "undefined"
                                            ELSE "signed"]}),
          issued |-> 1, ended |-> 0]
    ELSE [signs |-> gs (-) SetToBag({g}), issued |-> 0, ended |-> 1]

\* An eth_signTypedData_v4 request settles; a rejection goes to
\* console.error.
SignSettle(g, rejected) ==
    /\ BagIn(g, signs)
    /\ LET r == signContinue(signs, g, rejected)
       IN /\ signs' = r.signs
          /\ signIssued' = signIssued + r.issued
          /\ signEnded' = signEnded + r.ended
    /\ logged' = IF rejected THEN logged + 1 ELSE logged
    /\ UNCHANGED <<mounted, selectedWallet, userAccount, timers, interval,
                   connects, calls, polls, unhandled>>
    /\ UNCHANGED detached
    /\ UNCHANGED settled
    /\ UNCHANGED lastGood
    /\ UNCHANGED <<initializeProvider, cleanup, ledger>>

\* A dynamic import of App's initializeProvider resolves.  After the
\* stylesheet the library is imported; after the library
\* initializeLedgerProvider is called and its result returned, which
\* resolves the promise, and the .then callback stores the result in the
\* effect's `cleanup` before any other task runs.
ImportResolve ==
    /\ initializeProvider \in {"styles.css", "ledger-wallet-provider"}
    /\ IF initializeProvider = "styles.css"
       THEN /\ initializeProvider' = "ledger-wallet-provider"
            /\ UNCHANGED <<cleanup, ledger>>
       ELSE /\ initializeProvider' = "returned"
            /\ ledger' = "initialized"
            /\ cleanup' = "cleanupFn"
    /\ UNCHANGED <<mounted, selectedWallet, userAccount, timers, interval,
                   connects, calls, polls, signs, logged, unhandled,
                   detached, settled, signIssued, signEnded, lastGood>>

\* A dynamic import rejects: initializeProvider's promise rejects, the
\* .then callback is skipped and `cleanup` stays undefined.
ImportReject ==
    /\ initializeProvider \in {"styles.css", "ledger-wallet-provider"}
    /\ initializeProvider' = "rejected"
    /\ UNCHANGED <<cleanup, ledger>>
    /\ UNCHANGED <<mounted, selectedWallet, userAccount, timers, interval,
                   connects, calls, polls, signs, logged, unhandled,
                   detached, settled, signIssued, signEnded, lastGood>>

\* cleanup?.() in the cleanup of App's effect.
cleanupOpt(c, l) == IF c = "undefined" THEN l ELSE "cleaned"

\* App unmounts, and WalletProviders with it: React runs the cleanups of
\* the polling effect and of App's effect.
Unmount ==
    /\ mounted
    /\ mounted' = FALSE
    /\ timers' = clearInterval(timers, interval)
    /\ interval' = NoInterval
    /\ ledger' = cleanupOpt(cleanup, ledger)
    /\ UNCHANGED <<initializeProvider, cleanup>>
    /\ UNCHANGED <<selectedWallet, userAccount, connects, calls,
                   polls, signs, logged, unhandled>>
    /\ UNCHANGED detached
    /\ UNCHANGED settled
    /\ UNCHANGED <<signIssued, signEnded>>
    /\ UNCHANGED lastGood

\* The components after the first render: nothing selected, so the polling
\* effect returned without creating a timer; App's effect has called
\* initializeProvider, which awaits its first import.
UIInit ==
    /\ mounted = TRUE
    /\ selectedWallet = Undefined
    /\ userAccount = ""
    /\ timers = EmptyBag
    /\ interval = NoInterval
    /\ connects = EmptyBag
    /\ calls = 0
    /\ polls = EmptyBag
    /\ signs = EmptyBag
    /\ logged = 0
    /\ unhandled = 0
    /\ detached = 0
    /\ settled = NoConnect
    /\ signIssued = 0
    /\ signEnded = 0
    /\ lastGood = NoConnect
    /\ initializeProvider = "styles.css"
    /\ cleanup = "undefined"
    /\ ledger = "none"

UINext ==
    \/ \E d \in EIP6963ProviderDetail : HandleConnect(d)
    \/ \E c \in BagToSet(connects), accounts \in AccountLists :
          ConnectResolve(c, accounts)
    \/ \E c \in BagToSet(connects) : ConnectReject(c)
    \/ \E t \in BagToSet(timers) : Tick(t)
    \/ \E p \in BagToSet(polls) : PollResolve(p)
    \/ \E p \in BagToSet(polls) : PollReject(p)
    \/ SignMessages
    \/ \E g \in BagToSet(signs), rejected \in BOOLEAN : SignSettle(g, rejected)
    \/ ImportResolve
    \/ ImportReject
    \/ Unmount

\* The lists the store holds on a page with two wallets, once both were
\* announced to the component's subscription (uuid i announced i-th).  The
\* second wallet has the provider object of the first or one of its own.
Discovered ==
    {ps \in [1..2 -> EIP6963ProviderDetail] :
        /\ \A i \in 1..2 : ps[i].info.uuid = i
        /\ ps[1].provider = "h1"}

\* The store after the component subscribed (useSyncExternalStore) and the
\* wallets of the page announced themselves.
DiscoveredInit ==
    /\ providers \in Discovered
    /\ listeners = <<1>>
    /\ status = [s \in Subs |-> IF s = 1 THEN "active" ELSE "new"]
    /\ call = 0
    /\ syncQueue = <<>>
    /\ owed = {}
    /\ requests = 1
    /\ subscribeCalls = 1
    /\ notified = [s \in Subs |-> IF s = 1 THEN Len(providers) ELSE 0]
    /\ installed = {}
    /\ announced = Len(providers)
    /\ delivered = providers
    /\ lost = {}
    /\ answered = {}
    /\ late = {}
    /\ arrays = [k \in 1..(Len(providers) + 1) |-> SubSeq(providers, 1, k - 1)]
    /\ ref = Len(providers) + 1
    /\ appends = [s \in Subs |-> IF s = 1 THEN Len(providers) ELSE 0]
    /\ seen = [s \in Subs |-> IF s = 1 THEN providers ELSE <<>>]
    /\ snap = NoSnapshot

\* The store, used by any number of subscribers.
Init == StoreInit /\ UIInit
Next == StoreNext /\ UNCHANGED uiVars
Spec == Init /\ [][Next]_vars

\* The store and a reader of its snapshots.
NextSnap == (StoreNext \/ Value) /\ UNCHANGED uiVars
SpecSnap == Init /\ [][NextSnap]_vars

\* The component, on a page whose wallets have been discovered.
InitUI == DiscoveredInit /\ UIInit
NextUI == UINext /\ UNCHANGED storeVars
SpecUI == InitUI /\ [][NextUI]_vars
\* ---------------------------------------------------------------- claims
uuidOf(d) == d.info.uuid

\* Position of the first announcement of uuid u in the history h.
FirstIndex(h, u) ==
    CHOOSE i \in 1..Len(h) :
        /\ uuidOf(h[i]) = u
        /\ \A j \in 1..(i - 1) : uuidOf(h[j]) # u

\* C1: the collection holds exactly one entry per distinct uuid announced
\* while a listener existed; each entry is the detail of that uuid's first
\* announcement, and the entries are in the order of first announcement.
Thm_C1 ==
    /\ {uuidOf(providers[i]) : i \in 1..Len(providers)}
          = {uuidOf(delivered[i]) : i \in 1..Len(delivered)}
    /\ \A i \in 1..Len(providers) :
          providers[i] = delivered[FirstIndex(delivered, uuidOf(providers[i]))]
    /\ \A i, j \in 1..Len(providers) :
          i < j => FirstIndex(delivered, uuidOf(providers[i]))
                     < FirstIndex(delivered, uuidOf(providers[j]))

\* The scenario of the spec: id=1, id=1 again, id=2 gives two entries.
Wit_C1 ==
    /\ Len(delivered) = 3
    /\ uuidOf(delivered[1]) = 1
    /\ uuidOf(delivered[2]) = 1
    /\ uuidOf(delivered[3]) = 2
    /\ Len(providers) = 2

\* C2: in every reachable state no two entries of the collection have the
\* same uuid.
Thm_C2 ==
    \A i, j \in 1..Len(providers) :
        i # j => uuidOf(providers[i]) # uuidOf(providers[j])

\* Two subscriptions registered at once, one uuid announced twice with
\* different details, two entries stored.
Wit_C2 ==
    /\ Len(listeners) >= 2
    /\ Len(providers) = 2
    /\ \E i, j \in 1..Len(delivered) :
          i # j /\ uuidOf(delivered[i]) = uuidOf(delivered[j])
                /\ delivered[i] # delivered[j]

\* C3: an announcement whose uuid is already in the collection leaves the
\* collection unchanged, whatever info and provider handle it carries.
Thm_C3 ==
    [][\A d \in EIP6963ProviderDetail :
          (delivered' = Append(delivered, d) /\ some(providers, uuidOf(d)))
             => providers' = providers]_vars

\* A uuid was re-announced with another name and another handle, and the
\* stored entry is still the first announcement.
Wit_C3 ==
    /\ Len(delivered) >= 2
    /\ uuidOf(delivered[2]) = uuidOf(delivered[1])
    /\ delivered[2].info.name # delivered[1].info.name
    /\ delivered[2].provider # delivered[1].provider
    /\ providers = <<delivered[1]>>
    /\ listeners # <<>>

\* C4: the number of eip6963:requestProvider broadcasts equals the number of
\* store.subscribe calls: each call broadcasts once, nothing else does.
Thm_C4 == requests = subscribeCalls

\* Two subscribe calls, an unsubscribe and some announcements have happened.
Wit_C4 ==
    /\ subscribeCalls = 2
    /\ call = 0
    /\ \E s \in Subs : status[s] = "closed"
    /\ Len(delivered) >= 2

\* C5, as stated: once an unsubscribe function has been called, no
\* announcement changes the collection or invokes that callback.
Claim_C5 ==
    [][(\E s \in Subs : status[s] = "closed")
          => /\ providers' = providers
             /\ \A s \in Subs :
                   status[s] = "closed" => notified'[s] = notified[s]]_vars

\* C5, amended: once the unsubscribe function of a subscription has been
\* called its callback is not invoked again, and announcements do not
\* change the collection unless another subscription is still active.
Thm_C5 ==
    [][\A s \in Subs :
          status[s] = "closed"
             => /\ notified'[s] = notified[s]
                /\ (\A t \in Subs : status[t] # "active")
                      => providers' = providers]_vars

\* A subscription that had been notified was closed, and a uuid announced
\* after that is not in the collection.
Wit_C5 ==
    /\ \E s \in Subs : status[s] = "closed" /\ notified[s] >= 1
    /\ \A t \in Subs : status[t] # "active"
    /\ \E u \in late : ~some(providers, u)

\* C6: the collection starts empty and every step leaves it unchanged or
\* appends exactly one entry at its end.
Thm_C6 ==
    /\ providers = <<>>
    /\ [][\/ providers' = providers
          \/ \E d \in EIP6963ProviderDetail :
                providers' = Append(providers, d)]_vars

\* The collection grew to two entries across a subscribe and an unsubscribe.
Wit_C6 ==
    /\ Len(providers) = 2
    /\ subscribeCalls = 2
    /\ \E s \in Subs : status[s] = "closed"

\* C7, as stated: when an announcement of an unseen uuid is delivered, the
\* callback of every registered subscription is invoked.
Claim_C7 ==
    [][\A d \in EIP6963ProviderDetail :
          (delivered' = Append(delivered, d) /\ ~some(providers, uuidOf(d)))
             => \A s \in Range(listeners) : notified'[s] = notified[s] + 1]_vars

\* C9: the listener is registered while the request broadcast runs, and a
\* wallet that answered a request, inside the dispatch or later while the
\* subscription was active, is in the collection.
Thm_C9 ==
    /\ call # 0 => call \in Range(listeners)
    /\ \A w \in answered : some(providers, w)

\* A wallet that announced itself before any listener existed is in the
\* collection after answering a request.
Wit_C9 ==
    \E w \in answered : w \in lost /\ some(providers, w)
\* C8, as stated: no rejection of a provider.request call made by this code
\* escapes its call site as an unhandled rejection.
Claim_C8 == unhandled = 0

\* A polling round trip: a callback of the timer awaiting eth_chainId.
Started(p) == CopiesIn(p, polls') > CopiesIn(p, polls) /\ p.awaiting = "eth_chainId"

Thm_C11 ==
    [][/\ timers' # timers => polls' = polls
       /\ \A p \in BagToSet(polls) :
             (/\ p.awaiting = "eth_chainId"
              /\ CopiesIn(p, polls') < CopiesIn(p, polls)
              /\ unhandled' = unhandled)
                => LET q == [p EXCEPT !.awaiting = "wallet_getCapabilities"]
                   IN CopiesIn(q, polls') = CopiesIn(q, polls) + 1]_vars

\* Two round trips are in flight at once, and a callback issued
\* wallet_getCapabilities after its timer had been cleared.
Wit_C11 ==
    /\ BagCardinality(polls) >= 2
    /\ detached >= 1
    /\ timers = EmptyBag
\* C12: the callback of a subscription is invoked once for each entry its
\* listener appends and at no other time, in particular not for a uuid that
\* is present, and when it is invoked store.value() holds the new entry.
Thm_C12 ==
    /\ [](\A s \in Subs : notified[s] = appends[s])
    /\ [][/\ \A s \in Subs :
                notified'[s] # notified[s]
                   => /\ notified'[s] = notified[s] + 1
                      /\ appends'[s] = appends[s] + 1
                      /\ Len(providers') = Len(providers) + 1
                      /\ seen'[s] = providers'
          /\ \A d \in EIP6963ProviderDetail :
                (delivered' = Append(delivered, d) /\ some(providers, uuidOf(d)))
                   => notified' = notified]_vars

\* Two subscriptions have each appended an entry and been notified of it,
\* and a re-announcement was delivered as well.
Wit_C12 ==
    /\ notified[1] = 1
    /\ notified[2] = 1
    /\ seen[2] = providers
    /\ Len(delivered) > Len(providers)
\* C13: when a handleConnect call settles, the selection becomes the clicked
\* provider and the first account if the request resolved with a non-empty
\* first account (and the component is mounted); in every other case, a
\* rejection included, selectedWallet and userAccount keep their values.
Thm_C13 ==
    [][BagCardinality(connects') < BagCardinality(connects)
          => IF /\ ~settled'.rejected
                /\ settled'.accounts # <<>>
                /\ settled'.accounts[1] # ""
                /\ mounted
             THEN /\ selectedWallet' = settled'.providerWithInfo
                  /\ userAccount' = settled'.accounts[1]
             ELSE /\ selectedWallet' = selectedWallet
                  /\ userAccount' = userAccount]_vars

\* A connect to another wallet was rejected and the wallet connected
\* before is still connected.
Wit_C13 ==
    /\ settled # NoConnect
    /\ settled.rejected
    /\ isConnected(selectedWallet, userAccount)
    /\ settled.providerWithInfo # selectedWallet
    /\ mounted
\* Requests issued so far by the signMessages calls in flight.
RECURSIVE IssuedInFlight(_, _)
IssuedInFlight(gs, S) ==
    IF S = {} THEN 0
    ELSE LET g == CHOOSE x \in S : TRUE
         IN g.awaiting * CopiesIn(g, gs) + IssuedInFlight(gs, S \ {g})

\* A step that is a call of signMessages.
SignCalled == calls' = calls + 1 /\ connects' = connects /\ polls' = polls

\* C14: signMessages issues no request when not connected; when connected
\* it issues two eth_signTypedData_v4 requests on the selected provider for
\* the account of the call, the second when the first has settled, resolved
\* or rejected, and none after the second.
Thm_C14 ==
    /\ [](signIssued = 2 * signEnded + IssuedInFlight(signs, BagToSet(signs)))
    /\ [][/\ SignCalled =>
                IF isConnected(selectedWallet, userAccount)
                THEN LET g == [provider |-> selectedWallet.provider,
                               account |-> userAccount, awaiting |-> 1,
                               signature1 |-> "pending"]
                     IN /\ signIssued' = signIssued + 1
                        /\ CopiesIn(g, signs') = CopiesIn(g, signs) + 1
                ELSE signIssued' = signIssued /\ signs' = signs
          /\ \A g \in BagToSet(signs) :
                (g.awaiting = 1 /\ CopiesIn(g, signs') < CopiesIn(g, signs))
                   => /\ signIssued' = signIssued + 1
                      /\ \E h \in BagToSet(signs') :
                            /\ h.awaiting = 2
                            /\ h.provider = g.provider
                            /\ h.account = g.account
                            /\ CopiesIn(h, signs') = CopiesIn(h, signs) + 1
          /\ \A g \in BagToSet(signs) :
                (g.awaiting = 2 /\ CopiesIn(g, signs') < CopiesIn(g, signs))
                   => signIssued' = signIssued /\ signEnded' = signEnded + 1]_vars

\* The first request was rejected and the second one is in flight.
Wit_C14 ==
    \E g \in BagToSet(signs) : g.awaiting = 2 /\ g.signature1 = "undefined"
\* C15, as stated: selectedWallet is undefined exactly when userAccount is
\* empty, and the pair in effect is that of the handleConnect call whose
\* request resolved last.
Claim_C15 ==
    /\ (selectedWallet = Undefined) <=> (userAccount = "")
    /\ (settled # NoConnect /\ ~settled.rejected)
          => /\ selectedWallet = settled.providerWithInfo
             /\ <<userAccount>> = SubSeq(settled.accounts, 1, 1)

\* C15, amended: selectedWallet is undefined exactly when userAccount is
\* empty, and the pair in effect is the clicked provider and the first
\* account of the handleConnect call whose request last resolved with a
\* non-empty first account while the component was mounted.
Thm_C15 ==
    /\ (selectedWallet = Undefined) <=> (userAccount = "")
    /\ IF lastGood = NoConnect
       THEN selectedWallet = Undefined
       ELSE /\ selectedWallet = lastGood.providerWithInfo
            /\ userAccount = lastGood.accounts[1]

\* The selection was set by a call that resolved while another call was in
\* flight, and a call for another wallet resolved later without accounts.
Wit_C15 ==
    /\ lastGood # NoConnect
    /\ lastGood.overlapped
    /\ settled # NoConnect
    /\ ~settled.rejected
    /\ settled.accounts = <<>>
    /\ settled.providerWithInfo # selectedWallet
\* C16, as stated: once initializeLedgerProvider has been called and App
\* is unmounted, the cleanup function it returned has been invoked, whatever
\* the order of the unmount and the resolution of the imports.
Claim_C16 == (~mounted /\ ledger # "none") => ledger = "cleaned"
\* C17: the array a store.value() call returned keeps the contents it had
\* when it was returned, and a store.value() call made now returns that same
\* array exactly when no entry was appended since.
Thm_C17 ==
    snap # NoSnapshot =>
        /\ arrays[snap.ref] = snap.contents
        /\ (ref = snap.ref) <=> (appends = snap.appends)

\* A snapshot taken after one append and before another: it still holds
\* its one entry while store.value() holds two.
Wit_C17 ==
    /\ snap # NoSnapshot
    /\ Len(snap.contents) = 1
    /\ Len(value) = 2
    /\ ref # snap.ref
====
